---- MODULE Spec2Model ----
(***************************************************************************)
(* Model of @egomobile/http-prometheus: setupPromClient(server, path,      *)
(* arg3) and the request handler it builds.  The repository holds two      *)
(* versions of the function: src/src/index.ts (version 1) and              *)
(* src/unnamed/part_000 (version 2).  Both are modelled; a behaviour       *)
(* picks one of them when setup is called.                                 *)
(***************************************************************************)
EXTENDS Integers, Sequences, FiniteSets, TLC

\* ------------------------------------------------------------- bounds
\* caller-owned registries are 1..MaxReg
MaxReg == 2
\* longest middleware array passed by the caller
MaxUse == 2
\* number of handler invocations (requests) in one behaviour
MaxRequests == 2
\* number of calls made to the resolved provider in one behaviour
MaxCalls == 3
\* longest snapshot body a registry produces
MaxBody == 11

\* ------------------------------------------------------------- JavaScript values
\* A value is a record tagged with its runtime type ("kind").
Undefined == [kind |-> "nil", reg |-> 0, str |-> "", arr |-> <<>>, fn |-> "none"]
RegistryV(r) == [kind |-> "registry", reg |-> r, str |-> "", arr |-> <<>>, fn |-> "none"]
StringV(s) == [kind |-> "string", reg |-> 0, str |-> s, arr |-> <<>>, fn |-> "none"]
ArrayV(a) == [kind |-> "array", reg |-> 0, str |-> "", arr |-> a, fn |-> "none"]
FunctionV(f, r) == [kind |-> "function", reg |-> r, str |-> "", arr |-> <<>>, fn |-> f]
NumberV == [kind |-> "number", reg |-> 0, str |-> "", arr |-> <<>>, fn |-> "none"]
ObjectV(g, m, u) == [kind |-> "object", getRegistry |-> g, httpMethod |-> m, use |-> u]

\* the registry that `new promClient.Registry()` returns: distinct from
\* every registry the caller owns
NewRegistry == MaxReg + 1

Middlewares == {1, 2}
MiddlewareArrays == UNION {[1..n -> Middlewares] : n \in 0..MaxUse}
MethodNames == {"get", "post", "bogus"}

\* what a caller-written provider function does when it is called
ProviderModes ==
  {"syncValue", "syncPromise", "asyncValue", "syncThrow", "asyncReject", "syncAlternate"}
CallerProviders == {FunctionV(f, r) : f \in ProviderModes, r \in 1..MaxReg}

GetRegistryFields == {Undefined, NumberV} \cup CallerProviders
HttpMethodFields == {Undefined, NumberV} \cup {StringV(s) : s \in MethodNames}
UseFields == {Undefined, NumberV, StringV("get")} \cup {ArrayV(a) : a \in MiddlewareArrays}

Arg3Values ==
  {Undefined, NumberV}
    \cup {RegistryV(r) : r \in 1..MaxReg}
    \cup {ArrayV(a) : a \in MiddlewareArrays}
    \cup {StringV(s) : s \in MethodNames}
    \cup CallerProviders
    \cup {ObjectV(g, m, u) : g \in GetRegistryFields, m \in HttpMethodFields, u \in UseFields}

\* servers: nil, or an object with an isEgoHttpServer field and the
\* verb-named registration operations it has
Server(n, marker, ms) == [nil |-> n, isEgoHttpServer |-> marker, methods |-> ms]
Servers ==
  { Server(TRUE, "undefined", {}),
    Server(FALSE, "undefined", {"get", "post"}),
    Server(FALSE, "false", {"get", "post"}),
    Server(FALSE, "truthy", {"get", "post"}),
    Server(FALSE, "true", {"get", "post"}) }
Paths == {"/prometheus"}

\* ------------------------------------------------------------- ./utils/internal
\* isNil: the value is null or undefined
isNil(v) == v.kind = "nil"

\* asAsync: a function that calls func and always returns a promise
asAsync(func) == [func |-> func, wrapper |-> TRUE]

\* ------------------------------------------------------------- language helpers
\* arg3?.name : the property of an options object, undefined on anything else
Prop(v, name) == IF v.kind = "object" THEN v[name] ELSE Undefined
IsArray(v) == v.kind = "array"
TypeofFunction(v) == v.kind = "function"
TypeofString(v) == v.kind = "string"
TypeofObject(v) == v.kind \in {"object", "array", "registry"}
InstanceofRegistry(v) == v.kind = "registry"

\* async () => registry : the closure both versions build around a registry
ConstProvider(r) == FunctionV("asyncValue", r)

\* the value of getRegistry while no provider has been resolved
NoProvider == [func |-> Undefined, wrapper |-> FALSE]

\* ------------------------------------------------------------- setupPromClient
\* variant: the marker is only tested for truthiness
IsEgoHttpServerTruthy(server) ==
  ~server.nil /\ server.isEgoHttpServer \in {"true", "truthy"}

\* server?.isEgoHttpServer === true
IsEgoHttpServer(server) == ~server.nil /\ server.isEgoHttpServer = "true"

\* the outcome of one call of setupPromClient: whether it threw, and the
\* side effects it had performed by then
Throw(msg, created, collected) ==
  [threw |-> TRUE, error |-> msg, created |-> created, collected |-> collected,
   registered |-> <<>>, getRegistry |-> NoProvider]
Return(created, collected, registration, provider) ==
  [threw |-> FALSE, error |-> "", created |-> created, collected |-> collected,
   registered |-> <<registration>>, getRegistry |-> provider]

\* server[httpMethod](path, use, requestHandler); return { getRegistry, requestHandler }
\* A server without an operation of that name makes the call itself throw.
Register(server, path, httpMethod, use, provider, created, collected) ==
  IF httpMethod \in server.methods
    THEN Return(created, collected,
                [method |-> httpMethod, path |-> path, use |-> use,
                 handler |-> "requestHandler"],
                provider)
    ELSE Throw("server[httpMethod] is not a function", created, collected)

\* ---- version 1 (src/src/index.ts)
\* the last branch of the if-chain over arg3: neither Registry, array nor string
InElseV1(arg3) == ~InstanceofRegistry(arg3) /\ ~IsArray(arg3) /\ ~TypeofString(arg3)

\* new promClient.Registry(); collectDefaultMetrics(...); async () => registry
DefaultRegistryV1 == [provider |-> ConstProvider(NewRegistry), created |-> 1, collected |-> 1]

\* variant: the closure ignores arg3
RegistryArgV1Other(arg3) == ConstProvider(1)

\* async () => arg3
RegistryArgV1(arg3) == ConstProvider(arg3.reg)

\* the value of the local getRegistry when the if-chain is left
GetRegistryV1(arg3) ==
  IF InstanceofRegistry(arg3) THEN RegistryArgV1(arg3)
  ELSE IF ~InElseV1(arg3) THEN Undefined
  ELSE IF isNil(Prop(arg3, "getRegistry")) THEN DefaultRegistryV1.provider
  ELSE Prop(arg3, "getRegistry")

UseErrorV1(arg3) ==
  InElseV1(arg3) /\ ~isNil(Prop(arg3, "use")) /\ ~IsArray(Prop(arg3, "use"))

HttpMethodErrorV1(arg3) ==
  InElseV1(arg3) /\ ~isNil(Prop(arg3, "httpMethod")) /\ ~TypeofString(Prop(arg3, "httpMethod"))

UseV1(arg3) ==
  IF IsArray(arg3) THEN arg3.arr
  ELSE IF InElseV1(arg3) /\ IsArray(Prop(arg3, "use")) THEN Prop(arg3, "use").arr
  ELSE <<>>

HttpMethodV1(arg3) ==
  IF TypeofString(arg3) THEN arg3.str
  ELSE IF InElseV1(arg3) /\ TypeofString(Prop(arg3, "httpMethod")) THEN Prop(arg3, "httpMethod").str
  ELSE "get"

setupPromClientV1(server, path, arg3) ==
  IF ~IsEgoHttpServer(server)
    THEN Throw("server must be a valid e.GO HTTP server instance", 0, 0)
  ELSE
    LET makeDefault == InElseV1(arg3) /\ isNil(Prop(arg3, "getRegistry"))
        created == IF makeDefault THEN DefaultRegistryV1.created ELSE 0
        collected == IF makeDefault THEN DefaultRegistryV1.collected ELSE 0
    IN IF UseErrorV1(arg3)
         THEN Throw("arg3.use must be of type array", created, collected)
       ELSE IF HttpMethodErrorV1(arg3)
         THEN Throw("arg3.httpMethod must be of type string", created, collected)
       ELSE IF ~TypeofFunction(GetRegistryV1(arg3))
         THEN Throw("optionsOrRegistry is an invalid value", created, collected)
       ELSE Register(server, path, HttpMethodV1(arg3), UseV1(arg3),
                     asAsync(GetRegistryV1(arg3)), created, collected)

\* ---- version 2 (src/unnamed/part_000)
Options(g, m, u) == [getRegistry |-> g, httpMethod |-> m, use |-> u]

\* async () => arg3
RegistryArgV2(arg3) == ConstProvider(arg3.reg)

\* the options record built from arg3
OptionsV2(arg3) ==
  IF isNil(arg3) THEN Options(Undefined, Undefined, Undefined)
  ELSE IF InstanceofRegistry(arg3) THEN Options(RegistryArgV2(arg3), Undefined, Undefined)
  ELSE IF IsArray(arg3) THEN Options(Undefined, Undefined, arg3)
  ELSE IF TypeofObject(arg3) THEN Options(arg3.getRegistry, arg3.httpMethod, arg3.use)
  ELSE IF TypeofString(arg3) THEN Options(Undefined, arg3, Undefined)
  ELSE Options(arg3, Undefined, Undefined)

\* variant: the provider returns a registry other than the one created
DefaultRegistryV2Other == [provider |-> ConstProvider(1), created |-> 1, collected |-> 1]

\* new promClient.Registry(); collectDefaultMetrics(...); async () => registry
DefaultRegistryV2 == [provider |-> ConstProvider(NewRegistry), created |-> 1, collected |-> 1]

GetRegistryErrorV2(options) ==
  ~isNil(options.getRegistry) /\ ~TypeofFunction(options.getRegistry)

\* variant: use is never checked
UseErrorV2Unchecked(options) == FALSE

UseErrorV2(options) == ~isNil(options.use) /\ ~IsArray(options.use)

HttpMethodErrorV2(options) == ~isNil(options.httpMethod) /\ ~TypeofString(options.httpMethod)

UseV2(options) == IF IsArray(options.use) THEN options.use.arr ELSE <<>>

HttpMethodV2(options) ==
  IF TypeofString(options.httpMethod) THEN options.httpMethod.str ELSE "get"

setupPromClientV2(server, path, arg3) ==
  IF ~IsEgoHttpServer(server)
    THEN Throw("server must be a valid e.GO HTTP server instance", 0, 0)
  ELSE
    LET options == OptionsV2(arg3)
        makeDefault == isNil(options.getRegistry)
        created == IF makeDefault THEN DefaultRegistryV2.created ELSE 0
        collected == IF makeDefault THEN DefaultRegistryV2.collected ELSE 0
        provider == IF makeDefault THEN DefaultRegistryV2.provider ELSE options.getRegistry
    IN IF GetRegistryErrorV2(options)
         THEN Throw("getRegistry must be of type function", 0, 0)
       ELSE IF UseErrorV2(options)
         THEN Throw("use must be of type array", created, collected)
       ELSE IF HttpMethodErrorV2(options)
         THEN Throw("use must be of type array", created, collected)
       ELSE Register(server, path, HttpMethodV2(options), UseV2(options),
                     asAsync(provider), created, collected)

setupPromClient(ver, server, path, arg3) ==
  IF ver = 1 THEN setupPromClientV1(server, path, arg3)
  ELSE setupPromClientV2(server, path, arg3)

\* ------------------------------------------------------------- collaborators
\* registry.contentType : registry 2 is an OpenMetrics registry, the others
\* (the newly created one included) use the Prometheus text format
ContentType(r) ==
  IF r = 2 THEN "application/openmetrics-text; version=1.0.0; charset=utf-8"
  ELSE "text/plain; version=0.0.4; charset=utf-8"

\* a snapshot body of registry r: n characters, each naming the registry
Snapshot(r, n) == [k \in 1..n |-> r]
SnapshotLengths == {0, 1, MaxBody}

\* the ways `registry.metrics()` can settle
MetricsOutcomes(r) ==
  {[ok |-> TRUE, body |-> Snapshot(r, n)] : n \in SnapshotLengths}
    \cup {[ok |-> FALSE, body |-> <<>>]}
NoMetrics == [ok |-> FALSE, body |-> <<>>]

\* String(n) for a length n: its decimal digits
Digit(d) == <<"0", "1", "2", "3", "4", "5", "6", "7", "8", "9">>[d + 1]
\* variant: only the last digit is kept
StringLastDigit(n) == <<Digit(n % 10)>>

RECURSIVE String(_)
String(n) == IF n < 10 THEN <<Digit(n)>> ELSE String(n \div 10) \o <<Digit(n % 10)>>

\* what calling a provider function for the (n+1)-th time does
Result(threw, isPromise, fulfilled, r) ==
  [threw |-> threw, isPromise |-> isPromise, fulfilled |-> fulfilled, reg |-> r]
NoResult == Result(FALSE, FALSE, FALSE, 0)
CallFunc(func, n) ==
  CASE func.fn = "syncValue" -> Result(FALSE, FALSE, TRUE, func.reg)
    [] func.fn = "syncPromise" -> Result(FALSE, TRUE, TRUE, func.reg)
    [] func.fn = "asyncValue" -> Result(FALSE, TRUE, TRUE, func.reg)
    [] func.fn = "syncThrow" -> Result(TRUE, FALSE, FALSE, 0)
    [] func.fn = "asyncReject" -> Result(FALSE, TRUE, FALSE, 0)
    [] func.fn = "syncAlternate" ->
         Result(FALSE, FALSE, TRUE, ((func.reg - 1 + n) % MaxReg) + 1)

\* calling the function asAsync returned: the wrapper turns a returned value
\* into a fulfilled promise, a thrown error into a rejected one, and adopts a
\* returned promise
CallProvider(provider, n) ==
  LET raw == CallFunc(provider.func, n)
  IN IF provider.wrapper
       THEN Result(FALSE, TRUE, raw.fulfilled, raw.reg)
       ELSE raw

\* ------------------------------------------------------------- state
VARIABLES
  phase,              \* "start", then "ok" (setup returned) or "failed" (it threw)
  version,            \* the version of setupPromClient that was called
  server, path, arg3, \* the arguments of the call
  error,              \* the message of the error setup threw
  registriesCreated,  \* number of `new promClient.Registry()`
  collectCalls,       \* number of calls of promClient.collectDefaultMetrics
  registrations,      \* the calls server[method](path, use, handler), in order
  getRegistry,        \* the provider captured by the handler and returned
  providerCalls,      \* number of calls of the caller's or default provider
  got,                \* the results of the caller's calls of result.getRegistry()
  req                 \* the invocations of requestHandler

vars ==
  <<phase, version, server, path, arg3, error, registriesCreated, collectCalls,
    registrations, getRegistry, providerCalls, got, req>>

Requests == 1..MaxRequests

Idle == [pc |-> "idle", promised |-> NoResult, registry |-> 0,
         metrics |-> NoMetrics, trace |-> <<>>]

Init ==
  /\ phase = "start"
  /\ version = 0
  /\ server = Server(TRUE, "undefined", {})
  /\ path = ""
  /\ arg3 = Undefined
  /\ error = ""
  /\ registriesCreated = 0
  /\ collectCalls = 0
  /\ registrations = <<>>
  /\ getRegistry = NoProvider
  /\ providerCalls = 0
  /\ got = {}
  /\ req = [i \in Requests |-> Idle]

\* one call setupPromClient(s, p, a) of version ver, a drawn from args
Setup(args) ==
  /\ phase = "start"
  /\ \E ver \in {1, 2}, s \in Servers, p \in Paths, a \in args :
       LET out == setupPromClient(ver, s, p, a)
       IN /\ phase' = IF out.threw THEN "failed" ELSE "ok"
          /\ version' = ver
          /\ server' = s
          /\ path' = p
          /\ arg3' = a
          /\ error' = out.error
          /\ registriesCreated' = registriesCreated + out.created
          /\ collectCalls' = collectCalls + out.collected
          /\ registrations' = registrations \o out.registered
          /\ getRegistry' = out.getRegistry
  /\ UNCHANGED <<providerCalls, got, req>>

\* the caller calls the returned getRegistry()
CallGetRegistry ==
  /\ phase = "ok"
  /\ providerCalls < MaxCalls
  /\ got' = got \cup {CallProvider(getRegistry, providerCalls)}
  /\ providerCalls' = providerCalls + 1
  /\ UNCHANGED <<phase, version, server, path, arg3, error, registriesCreated,
                 collectCalls, registrations, getRegistry, req>>

\* ------------------------------------------------------------- requestHandler
Event(ev, r, status, ctype, clen, body) ==
  [ev |-> ev, reg |-> r, status |-> status, ctype |-> ctype, clen |-> clen, body |-> body]
GetRegistryEvent == Event("getRegistry", 0, 0, "", <<>>, <<>>)
MetricsEvent(registry) == Event("metrics", registry, 0, "", <<>>, <<>>)

\* response.writeHead(200, { Content-Type, Content-Length })
WriteHead(registry, responseData) ==
  Event("writeHead", 0, 200, ContentType(registry), String(Len(responseData)), <<>>)

\* response.write(responseData)
Write(responseData) == Event("write", 0, 0, "", <<>>, responseData)

\* the statements after the second await
Respond(registry, responseData) == <<WriteHead(registry, responseData), Write(responseData)>>

HandlerUnchanged ==
  UNCHANGED <<phase, version, server, path, arg3, error, registriesCreated,
              collectCalls, registrations, getRegistry, got>>

\* the handler is entered: getRegistry() is called and the handler suspends
\* at `await getRegistry()`
Invoke(i) ==
  /\ phase = "ok"
  /\ req[i].pc = "idle"
  /\ \A j \in 1..(i - 1) : req[j].pc # "idle"
  /\ providerCalls < MaxCalls
  /\ LET result == CallProvider(getRegistry, providerCalls)
     IN req' = [req EXCEPT ![i] =
                  [@ EXCEPT !.pc = IF result.threw THEN "rejected" ELSE "awaitRegistry",
                            !.promised = result,
                            !.trace = <<GetRegistryEvent>>]]
  /\ providerCalls' = providerCalls + 1
  /\ HandlerUnchanged

\* the first await is left: with a registry, registry.metrics() is called
\* and the handler suspends at the second await; with a rejection the
\* handler's promise rejects
AwaitRegistry(i) ==
  /\ req[i].pc = "awaitRegistry"
  /\ \/ /\ ~req[i].promised.fulfilled
        /\ req' = [req EXCEPT ![i].pc = "rejected"]
     \/ /\ req[i].promised.fulfilled
        /\ \E m \in MetricsOutcomes(req[i].promised.reg) :
             req' = [req EXCEPT ![i] =
                       [@ EXCEPT !.pc = "awaitMetrics",
                                 !.registry = req[i].promised.reg,
                                 !.metrics = m,
                                 !.trace = Append(@, MetricsEvent(req[i].promised.reg))]]
  /\ UNCHANGED providerCalls
  /\ HandlerUnchanged

\* variant: the failure of metrics() is answered with an error head
AwaitMetricsCatch(i) ==
  /\ req[i].pc = "awaitMetrics"
  /\ \/ /\ ~req[i].metrics.ok
        /\ req' = [req EXCEPT ![i] =
                     [@ EXCEPT !.pc = "rejected",
                               !.trace = Append(@, Event("writeHead", 0, 500, "", <<"0">>, <<>>))]]
     \/ /\ req[i].metrics.ok
        /\ req' = [req EXCEPT ![i] =
                     [@ EXCEPT !.pc = "resolved",
                               !.trace = @ \o Respond(req[i].registry, req[i].metrics.body)]]
  /\ UNCHANGED providerCalls
  /\ HandlerUnchanged

\* variant: the registry is kept in one variable shared by all invocations,
\* so the head is written from the registry stored last
AwaitMetricsShared(i) ==
  /\ req[i].pc = "awaitMetrics"
  /\ \/ /\ ~req[i].metrics.ok
        /\ req' = [req EXCEPT ![i].pc = "rejected"]
     \/ /\ req[i].metrics.ok
        /\ LET last == CHOOSE j \in Requests :
                         /\ req[j].registry # 0
                         /\ \A k \in Requests : req[k].registry # 0 => k <= j
           IN req' = [req EXCEPT ![i] =
                        [@ EXCEPT !.pc = "resolved",
                                  !.trace = @ \o Respond(req[last].registry, req[i].metrics.body)]]
  /\ UNCHANGED providerCalls
  /\ HandlerUnchanged

\* the second await is left: the head and the body are written, or the
\* failure of metrics() rejects the handler's promise
AwaitMetrics(i) ==
  /\ req[i].pc = "awaitMetrics"
  /\ \/ /\ ~req[i].metrics.ok
        /\ req' = [req EXCEPT ![i].pc = "rejected"]
     \/ /\ req[i].metrics.ok
        /\ req' = [req EXCEPT ![i] =
                     [@ EXCEPT !.pc = "resolved",
                               !.trace = @ \o Respond(req[i].registry, req[i].metrics.body)]]
  /\ UNCHANGED providerCalls
  /\ HandlerUnchanged

\* ------------------------------------------------------------- specifications
\* the argument shapes used when the handler is exercised after setup
HandlerArg3Values ==
  {Undefined, NumberV, ArrayV(<<>>), ArrayV(<<1, 2>>)}
    \cup {RegistryV(r) : r \in 1..MaxReg}
    \cup {StringV(s) : s \in MethodNames}
    \cup CallerProviders
    \cup {ObjectV(g, m, u) : g \in GetRegistryFields,
                             m \in {Undefined, StringV("post")},
                             u \in {Undefined, ArrayV(<<2, 1>>)}}

SetupAny == Setup(Arg3Values)
SetupForHandler == Setup(HandlerArg3Values)

Next ==
  \/ SetupForHandler
  \/ CallGetRegistry
  \/ \E i \in Requests : Invoke(i)
  \/ \E i \in Requests : AwaitRegistry(i)
  \/ \E i \in Requests : AwaitMetrics(i)

Spec == Init /\ [][Next]_vars

\* setup alone, over every argument shape
SetupNext == SetupAny
SetupSpec == Init /\ [][SetupNext]_vars

\* ------------------------------------------------------------- properties
\* helpers of the properties below
ValidServer == ~server.nil /\ server.isEgoHttpServer = "true"
Called == phase # "start"
NoSetupEffect == registriesCreated = 0 /\ collectCalls = 0 /\ registrations = <<>>
Registration(m, u) == [method |-> m, path |-> path, use |-> u, handler |-> "requestHandler"]
DigitValue(c) == CHOOSE d \in 0..9 : Digit(d) = c
RECURSIVE ParseInt(_)
ParseInt(s) ==
  IF s = <<>> THEN 0
  ELSE ParseInt(SubSeq(s, 1, Len(s) - 1)) * 10 + DigitValue(s[Len(s)])
Canonical(s) == Len(s) >= 1 /\ (Len(s) > 1 => s[1] # "0")
CountEv(t, ev) == Cardinality({k \in 1..Len(t) : t[k].ev = ev})
Wrote(t) == \E k \in 1..Len(t) : t[k].ev \in {"writeHead", "write", "end"}

\* C1: a server argument without the marker (nil, no field, or a field that
\* is not exactly true) makes setupPromClient throw the server type error
\* with no registry created, no default-metrics collection, no provider
\* call and no registration, whatever arg3 is.
C1_InvalidServerThrowsFirst ==
  (Called /\ ~ValidServer) =>
    /\ phase = "failed"
    /\ error = "server must be a valid e.GO HTTP server instance"
    /\ NoSetupEffect
    /\ providerCalls = 0
    /\ getRegistry = NoProvider

C1_Witness ==
  /\ phase = "failed"
  /\ ~server.nil
  /\ server.isEgoHttpServer = "truthy"
  /\ arg3.kind = "object"
  /\ arg3.getRegistry.kind = "nil"

\* C2: with a valid server, a string arg3 (naming an operation the server
\* has) registers once under that method with empty middleware, and an
\* array arg3 registers once under "get" with that middleware sequence, in
\* every version.
C2_StringOrArrayRegisters ==
  /\ (Called /\ ValidServer /\ arg3.kind = "string" /\ arg3.str \in server.methods) =>
       (phase = "ok" /\ registrations = <<Registration(arg3.str, <<>>)>>)
  /\ (Called /\ ValidServer /\ arg3.kind = "array") =>
       (phase = "ok" /\ registrations = <<Registration("get", arg3.arr)>>)

\* C3: a call that throws after the server check has created no registry,
\* triggered no collection and registered nothing; a call that returns has
\* resolved a provider and registered exactly once.
C3_NoPartialSuccess ==
  /\ (phase = "failed" /\ ValidServer) => NoSetupEffect
  /\ phase = "ok" => (TypeofFunction(getRegistry.func) /\ Len(registrations) = 1)

\* C8: with a valid server and an options object, a present non-array use,
\* a present non-string httpMethod or a present non-callable getRegistry
\* makes setup throw a type error without registering; otherwise absent
\* fields take their defaults ("get", no middleware, a new registry) and
\* the only error left is a method name the server has no operation for.
TypeErrors ==
  {"arg3.use must be of type array", "arg3.httpMethod must be of type string",
   "optionsOrRegistry is an invalid value", "getRegistry must be of type function",
   "use must be of type array"}
BadField(v, okKind) == v.kind # "nil" /\ v.kind # okKind
C8_OptionsFieldChecks ==
  (Called /\ ValidServer /\ arg3.kind = "object") =>
    LET bad == \/ BadField(arg3.use, "array")
               \/ BadField(arg3.httpMethod, "string")
               \/ BadField(arg3.getRegistry, "function")
        m == IF arg3.httpMethod.kind = "nil" THEN "get" ELSE arg3.httpMethod.str
        u == IF arg3.use.kind = "nil" THEN <<>> ELSE arg3.use.arr
    IN /\ bad => (phase = "failed" /\ error \in TypeErrors /\ registrations = <<>>)
       /\ (~bad /\ m \in server.methods) =>
            /\ phase = "ok"
            /\ registrations = <<Registration(m, u)>>
            /\ IF arg3.getRegistry.kind = "nil"
                 THEN /\ registriesCreated = 1
                      /\ collectCalls = 1
                      /\ getRegistry.func = FunctionV("asyncValue", NewRegistry)
                 ELSE /\ registriesCreated = 0
                      /\ getRegistry.func = arg3.getRegistry
       /\ (~bad /\ m \notin server.methods) =>
            (phase = "failed" /\ error = "server[httpMethod] is not a function")

C8_Witness ==
  /\ phase = "failed"
  /\ ValidServer
  /\ version = 2
  /\ arg3.kind = "object"
  /\ arg3.use.kind = "number"
  /\ arg3.httpMethod.kind = "nil"
  /\ arg3.getRegistry.kind = "function"

\* the requests whose provider call has returned a promise
Started(i) == req[i].pc # "idle"

\* C4: without a third argument setup creates exactly one registry and
\* collects default metrics into it exactly once; every getRegistry() call
\* and every handler invocation, in any interleaving, resolves to that one
\* registry, and the two counters never move again.
C4_DefaultRegistryStable ==
  (Called /\ ValidServer /\ arg3.kind = "nil") =>
    /\ phase = "ok"
    /\ registriesCreated = 1
    /\ collectCalls = 1
    /\ \A g \in got : g.isPromise /\ g.fulfilled /\ g.reg = NewRegistry
    /\ \A i \in Requests :
         Started(i) => (req[i].promised.fulfilled /\ req[i].promised.reg = NewRegistry)

C4_Witness ==
  /\ phase = "ok"
  /\ arg3.kind = "nil"
  /\ version = 2
  /\ got # {}
  /\ providerCalls >= 3
  /\ req[1].pc = "resolved"

\* C5: with a Registry instance as arg3 no registry is created and no
\* collection is triggered; every getRegistry() call resolves to that
\* instance and the handler serializes that instance.
C5_ExplicitRegistryUsed ==
  (Called /\ ValidServer /\ arg3.kind = "registry") =>
    /\ phase = "ok"
    /\ registriesCreated = 0
    /\ collectCalls = 0
    /\ \A g \in got : g.isPromise /\ g.fulfilled /\ g.reg = arg3.reg
    /\ \A i \in Requests :
         /\ Started(i) => (req[i].promised.fulfilled /\ req[i].promised.reg = arg3.reg)
         /\ req[i].pc = "resolved" =>
              /\ req[i].trace[2] = MetricsEvent(arg3.reg)
              /\ req[i].trace[3].ctype = ContentType(arg3.reg)
              /\ req[i].trace[4].body = Snapshot(arg3.reg, Len(req[i].trace[4].body))

C5_Witness ==
  /\ phase = "ok"
  /\ arg3 = RegistryV(2)
  /\ version = 1
  /\ got # {}
  /\ req[1].pc = "resolved"
  /\ Len(req[1].trace[4].body) = MaxBody

\* C6: a provider function supplied as bare arg3 or as options.getRegistry
\* is the provider setup resolves: getRegistry() returns a promise settling
\* as the supplied provider does, no default registry replaces it, and a
\* bare function is either used or rejected with a type error.
SuppliesProvider ==
  \/ arg3.kind = "function"
  \/ (arg3.kind = "object" /\ arg3.getRegistry.kind = "function")
Supplied == IF arg3.kind = "function" THEN arg3 ELSE arg3.getRegistry
ConstantModes == {"syncValue", "syncPromise", "asyncValue"}
C6_SuppliedProviderUsed ==
  (Called /\ ValidServer /\ SuppliesProvider) =>
    /\ registriesCreated = 0
    /\ collectCalls = 0
    /\ phase = "ok" =>
         /\ getRegistry.func = Supplied
         /\ \A g \in got :
              /\ g.isPromise
              /\ ~g.threw
              /\ Supplied.fn \in ConstantModes => (g.fulfilled /\ g.reg = Supplied.reg)
              /\ Supplied.fn \in {"syncThrow", "asyncReject"} => ~g.fulfilled
              /\ Supplied.fn = "syncAlternate" => (g.fulfilled /\ g.reg \in 1..MaxReg)
    /\ (phase = "failed" /\ arg3.kind = "function") => error \in TypeErrors

\* C7: a handler invocation that resolved has, in this order and once each,
\* called the provider, requested the snapshot of the registry it resolved
\* to, written the head (200, that registry's content type, the decimal
\* length of the body) and written the unchanged body; it never ends the
\* response.
C7_HandlerSequence ==
  \A i \in Requests :
    req[i].pc = "resolved" =>
      LET t == req[i].trace
          r == req[i].promised.reg
      IN /\ Len(t) = 4
         /\ t[1] = GetRegistryEvent
         /\ t[2].ev = "metrics" /\ t[2].reg = r
         /\ t[3].ev = "writeHead"
         /\ t[3].status = 200
         /\ t[3].ctype = ContentType(r)
         /\ Canonical(t[3].clen)
         /\ ParseInt(t[3].clen) = Len(req[i].metrics.body)
         /\ t[4].ev = "write"
         /\ t[4].body = req[i].metrics.body
         /\ CountEv(t, "end") = 0

C7_Witness ==
  /\ req[1].pc = "resolved"
  /\ Len(req[1].metrics.body) >= 10
  /\ req[1].promised.reg = 2

\* C9: once the provider call of an invocation has rejected, or its
\* snapshot request has failed, the invocation never resolves, nothing is
\* written to its response, and the provider and the snapshot were each
\* attempted at most once; after a provider rejection no snapshot is
\* requested at all.
ProviderFailed(i) == Started(i) /\ ~req[i].promised.fulfilled
MetricsFailed(i) == CountEv(req[i].trace, "metrics") > 0 /\ ~req[i].metrics.ok
C9_FailureWritesNothing ==
  \A i \in Requests :
    /\ (ProviderFailed(i) \/ MetricsFailed(i)) =>
         /\ req[i].pc \in {"awaitRegistry", "awaitMetrics", "rejected"}
         /\ ~Wrote(req[i].trace)
         /\ CountEv(req[i].trace, "getRegistry") = 1
         /\ CountEv(req[i].trace, "metrics") <= 1
    /\ ProviderFailed(i) =>
         (req[i].pc \in {"awaitRegistry", "rejected"} /\ CountEv(req[i].trace, "metrics") = 0)
    /\ req[i].pc = "rejected" => (ProviderFailed(i) \/ MetricsFailed(i))

C9_Witness ==
  /\ req[1].pc = "rejected"
  /\ MetricsFailed(1)
  /\ req[2].pc = "resolved"

\* C10: after setup returned the provider is never reassigned, and every
\* invocation that resolved wrote a content type, a length and a body that
\* all come from the registry its own provider call resolved to, whatever
\* the other invocations in flight resolved to.
OwnRegistryWritten(i) ==
  req[i].pc = "resolved" =>
    LET r == req[i].promised.reg
        head == req[i].trace[3]
        body == req[i].trace[4].body
    IN /\ head.ctype = ContentType(r)
       /\ ParseInt(head.clen) = Len(body)
       /\ body = Snapshot(r, Len(body))
       /\ body = req[i].metrics.body
C10_ProviderFixedAndIsolated ==
  /\ [](\A i \in Requests : OwnRegistryWritten(i))
  /\ [][phase = "ok" => getRegistry' = getRegistry]_vars

C10_Witness ==
  /\ req[2].pc = "resolved"
  /\ req[1].pc = "awaitMetrics"
  /\ req[1].promised.reg # req[2].promised.reg
  /\ Len(req[2].metrics.body) > 0

====
